---- MODULE Spec2Model ----
(***************************************************************************)
(* Model of the prepare entrypoint of claude-code-action: context          *)
(* normalisation (parseGitHubContext), mode detection (detectMode and      *)
(* validateTrackProgressEvent), the write-permission gate                  *)
(* (checkWritePermissions), the human-actor check (checkHumanActor), the   *)
(* trigger check of the selected mode and the hand-over to the mode's      *)
(* prepare step.                                                           *)
(*                                                                         *)
(* Strings that the code only compares or tests for emptiness (event       *)
(* names, actions, the prompt) are TLA+ strings.  Strings that the code    *)
(* cuts up (actor logins, allowed_bots, allowed_non_write_users) are       *)
(* sequences of one-character strings.                                     *)
(***************************************************************************)
EXTENDS Integers, Sequences, FiniteSets, TLC

VARIABLES
  pc,          \* position of run() in src/entrypoints/prepare.ts
  env,         \* github.context + process.env + payload, fixed for the run
  context,     \* result of parseGitHubContext(), or NoContext
  mode,        \* name of the mode returned by getMode(), or "none"
  tokenSet,    \* setupGitHubToken() has returned a token
  permCheck,   \* what checkWritePermissions did, or NoPerm before the call
  humanCheck,  \* what checkHumanActor did, or NoHuman before the call
  outputs,     \* core.setOutput values
  failure,     \* error caught by run()'s catch block, or NoError
  exitCode,    \* process.exit code, -1 while the process is alive
  prepared,    \* name of the mode whose prepare step has run, or "none"
  trace,       \* the steps run() has started, in order
  call,        \* a function under test and its arguments, or NoCall
  result       \* what the function under test returned, or NoResult

vars == <<pc, env, context, mode, tokenSet, permCheck, humanCheck, outputs,
          failure, exitCode, prepared, trace, call, result>>

\* the variables of a run of the prepare entrypoint
runVars == <<pc, env, context, mode, tokenSet, permCheck, humanCheck, outputs,
             failure, exitCode, prepared, trace>>

\* the variables of a single call of a function
callVars == <<call, result>>

----------------------------------------------------------------------------
(* String helpers: JavaScript string methods on character sequences.       *)

\* String.prototype.endsWith
endsWith(s, suf) ==
  /\ Len(s) >= Len(suf)
  /\ SubSeq(s, Len(s) - Len(suf) + 1, Len(s)) = suf

isSpace(c) == c \in {" ", "\t", "\n"}

RECURSIVE trimStart(_)
trimStart(s) ==
  IF s # <<>> /\ isSpace(Head(s)) THEN trimStart(Tail(s)) ELSE s

RECURSIVE trimEnd(_)
trimEnd(s) ==
  IF s # <<>> /\ isSpace(s[Len(s)]) THEN trimEnd(SubSeq(s, 1, Len(s) - 1))
  ELSE s

\* String.prototype.trim
trim(s) == trimEnd(trimStart(s))

\* String.prototype.split(","): "" splits into one empty piece
RECURSIVE splitAcc(_, _, _)
splitAcc(s, cur, acc) ==
  IF s = <<>> THEN Append(acc, cur)
  ELSE IF Head(s) = "," THEN splitAcc(Tail(s), <<>>, Append(acc, cur))
  ELSE splitAcc(Tail(s), Append(cur, Head(s)), acc)

split(s) == splitAcc(s, <<>>, <<>>)

lowerChar(c) ==
  CASE c = "A" -> "a" [] c = "B" -> "b" [] c = "D" -> "d" [] c = "O" -> "o"
    [] c = "T" -> "t"
    [] OTHER -> c

\* String.prototype.toLowerCase
toLowerCase(s) == [i \in 1..Len(s) |-> lowerChar(s[i])]

BotSuffix == <<"[", "b", "o", "t", "]">>

\* s.replace(/\[bot\]$/, "")
stripBotSuffix(s) ==
  IF endsWith(s, BotSuffix) THEN SubSeq(s, 1, Len(s) - Len(BotSuffix)) ELSE s

\* mutant: a "*" entry of the list matches every name
includes_wildcard(list, x) ==
  \E i \in 1..Len(list) : list[i] = x \/ list[i] = <<"*">>

\* Array.prototype.includes
includes(list, x) == \E i \in 1..Len(list) : list[i] = x

\* Array.prototype.map / filter
RECURSIVE mapTrim(_)
mapTrim(list) ==
  IF list = <<>> THEN <<>> ELSE <<trim(Head(list))>> \o mapTrim(Tail(list))

RECURSIVE filterNonEmpty(_)
filterNonEmpty(list) ==
  IF list = <<>> THEN <<>>
  ELSE IF Len(Head(list)) > 0 THEN <<Head(list)>> \o filterNonEmpty(Tail(list))
  ELSE filterNonEmpty(Tail(list))

RECURSIVE mapBotName(_)
mapBotName(list) ==
  IF list = <<>> THEN <<>>
  ELSE <<stripBotSuffix(toLowerCase(trim(Head(list))))>> \o mapBotName(Tail(list))

----------------------------------------------------------------------------
(* Values                                                                  *)

Absent == "<undefined>"
NoContext == [kind |-> "none"]
NoError == [type |-> "none", names |-> "none"]
NoCall == [fn |-> "none"]
NoResult == [kind |-> "none"]

ENTITY_EVENT_NAMES ==
  {"issues", "issue_comment", "pull_request", "pull_request_review",
   "pull_request_review_comment"}

AUTOMATION_EVENT_NAMES ==
  {"workflow_dispatch", "repository_dispatch", "schedule", "workflow_run"}

\* Event names GitHub can hand to the action in github.context.eventName
RawEventNames ==
  ENTITY_EVENT_NAMES \cup AUTOMATION_EVENT_NAMES \cup {"pull_request_target", "push"}

\* payload.action values (Absent: the payload has no action field)
EventActions ==
  {Absent, "opened", "synchronize", "ready_for_review", "reopened", "closed"}

\* PROMPT environment variable
PromptEnvs == {Absent, "Review this PR"}

\* TRACK_PROGRESS environment variable
TrackProgressEnvs == {"true", "false"}

\* payload issue/PR number
EntityNumbers == {"#7"}

\* OVERRIDE_GITHUB_TOKEN environment variable
OverrideTokenEnvs == {Absent, "ghs_token"}

alice == <<"a", "l", "i", "c", "e">>
dependabot == <<"d", "e", "p", "e", "n", "d", "a", "b", "o", "t">>
dependabotBot == dependabot \o BotSuffix
star == <<"*">>

Actors == {alice, dependabotBot}
AllowedBotsEnvs == {<<>>, dependabot}
AllowedNonWriteUsersEnvs == {<<>>, alice}

bob == <<"b", "o", "b">>

\* the function under test is called with these actors and lists
PermActors == {alice, bob, dependabotBot}

PermLists ==
  {<<>>, alice, star, <<" ", "*", " ">>, <<"b", "o", "b", ",", " ", "a", "l", "i", "c", "e">>, <<"a", "l", "i", "c", "e", ",", "*">>, dependabotBot}

DependabotBot == <<"D", "e", "p", "e", "n", "d", "a", "b", "o", "t", "[", "b", "o", "t", "]">>

\* logins and allowed_bots values checkHumanActor is called with
HumanActors == {alice, bob, dependabotBot, DependabotBot}

AllowedBotsInputs ==
  {<<>>, star, <<" ", "*", " ">>, dependabot, dependabotBot, <<"D", "e", "p", "e", "n", "d", "a", "b", "o", "t", "[", "B", "O", "T", "]">>, <<"b", "o", "b", ",", " ", "d", "e", "p", "e", "n", "d", "a", "b", "o", "t">>, <<"d", "e", "p", "e", "n", "d", "a", "b", "o", "t", ",", "*">>, <<",">>}

\* userData.type
AccountTypes == {"User", "Bot", "Organization"}

\* account type users.getByUsername reports for an actor login
ActorTypes(actor) ==
  IF endsWith(actor, BotSuffix) THEN {"Bot"} ELSE {"User"}

\* repos.getCollaboratorPermissionLevel answers; "error" is a failed request
PermissionAnswers == {"admin", "write", "read", "none", "error"}

----------------------------------------------------------------------------
(* Pure functions of the source                                            *)

\* JavaScript truthiness of an optional string
truthy(s) == s # Absent /\ s # ""

\* src/github/context.ts: the switch of parseGitHubContext
\* mutant: pull_request_target keeps its own name
pullRequestEventName_raw(name) == name

\* case "pull_request": case "pull_request_target": eventName: "pull_request"
pullRequestEventName(name) == "pull_request"

parseGitHubContext(e) ==
  LET commonFields(name, number, isPR) ==
        [eventName    |-> name,
         eventAction  |-> e.action,
         actor        |-> e.actor,
         entityNumber |-> number,
         isPR         |-> isPR,
         payloadTrigger |-> e.payloadTrigger,
         inputs |-> [prompt |-> IF truthy(e.PROMPT) THEN e.PROMPT ELSE "",
                     allowedBots |-> e.ALLOWED_BOTS,
                     allowedNonWriteUsers |-> e.ALLOWED_NON_WRITE_USERS,
                     trackProgress |-> (e.TRACK_PROGRESS = "true")]]
      ok(c) == [kind |-> "return", value |-> c, error |-> NoError]
  IN CASE e.eventName = "issues" ->
            ok(commonFields("issues", e.number, "false"))
       [] e.eventName = "issue_comment" ->
            ok(commonFields("issue_comment", e.number,
                             IF e.issueHasPullRequest THEN "true" ELSE "false"))
       [] e.eventName \in {"pull_request", "pull_request_target"} ->
            ok(commonFields(pullRequestEventName(e.eventName), e.number, "true"))
       [] e.eventName = "pull_request_review" ->
            ok(commonFields("pull_request_review", e.number, "true"))
       [] e.eventName = "pull_request_review_comment" ->
            ok(commonFields("pull_request_review_comment", e.number, "true"))
       [] e.eventName = "workflow_dispatch" ->
            ok(commonFields("workflow_dispatch", Absent, Absent))
       [] e.eventName = "repository_dispatch" ->
            ok(commonFields("repository_dispatch", Absent, Absent))
       [] e.eventName = "schedule" ->
            ok(commonFields("schedule", Absent, Absent))
       [] e.eventName = "workflow_run" ->
            ok(commonFields("workflow_run", Absent, Absent))
       [] OTHER ->
            [kind |-> "throw", value |-> NoContext,
             error |-> [type |-> "UnsupportedEventType", names |-> e.eventName]]

isIssuesEvent(c) == c.eventName = "issues"
isIssueCommentEvent(c) == c.eventName = "issue_comment"
isPullRequestEvent(c) == c.eventName = "pull_request"
isPullRequestReviewEvent(c) == c.eventName = "pull_request_review"
isPullRequestReviewCommentEvent(c) == c.eventName = "pull_request_review_comment"
\* mutant: every parsed context counts as an entity context
isEntityContext_any(c) ==
  c.eventName \in ENTITY_EVENT_NAMES \cup AUTOMATION_EVENT_NAMES

isEntityContext(c) == c.eventName \in ENTITY_EVENT_NAMES
isAutomationContext(c) == c.eventName \in AUTOMATION_EVENT_NAMES

\* github/validation/trigger: the phrase, label or assignee condition of the
\* payload; an explicit prompt always counts as a trigger
checkContainsTrigger(c) == truthy(c.inputs.prompt) \/ c.payloadTrigger

validEvents ==
  {"pull_request", "issues", "issue_comment", "pull_request_review_comment",
   "pull_request_review"}

validActions == {"opened", "synchronize", "ready_for_review", "reopened"}

\* mutant: the event-name check is missing
validateTrackProgressEvent_noEventCheck(c) ==
  IF c.eventName = "pull_request" /\ truthy(c.eventAction)
     /\ c.eventAction \notin validActions
  THEN [type |-> "TrackProgressAction", names |-> c.eventAction]
  ELSE NoError

\* mutant: the pull_request action check is missing
validateTrackProgressEvent_noActionCheck(c) ==
  IF c.eventName \notin validEvents
  THEN [type |-> "TrackProgressEvent", names |-> c.eventName]
  ELSE NoError

\* modes/detector: validateTrackProgressEvent; NoError when it returns
validateTrackProgressEvent(c) ==
  IF c.eventName \notin validEvents
  THEN [type |-> "TrackProgressEvent", names |-> c.eventName]
  ELSE IF c.eventName = "pull_request" /\ truthy(c.eventAction)
          /\ c.eventAction \notin validActions
  THEN [type |-> "TrackProgressAction", names |-> c.eventAction]
  ELSE NoError

\* mutant: validation runs whether or not track_progress is set
trackProgressValidation_always(c) == validateTrackProgressEvent(c)

\* detectMode: if (context.inputs.trackProgress) validateTrackProgressEvent(context)
trackProgressValidation(c) ==
  IF c.inputs.trackProgress THEN validateTrackProgressEvent(c) ELSE NoError

\* mutant: a prompt keeps track_progress from forcing tag mode
trackProgressMode_promptWins(c) ==
  IF /\ c.inputs.trackProgress
     /\ isEntityContext(c)
     /\ ~truthy(c.inputs.prompt)
  THEN "tag" ELSE "none"

\* detectMode: track_progress forces tag mode; "none" when the block falls through
trackProgressMode(c) ==
  IF /\ c.inputs.trackProgress
     /\ isEntityContext(c)
     /\ \/ isPullRequestEvent(c)
        \/ isIssuesEvent(c)
        \/ isIssueCommentEvent(c)
        \/ isPullRequestReviewCommentEvent(c)
        \/ isPullRequestReviewEvent(c)
  THEN "tag" ELSE "none"

\* mutant: the trigger phrase is looked for before the prompt
commentEventMode_triggerFirst(c) ==
  IF /\ isEntityContext(c)
     /\ \/ isIssueCommentEvent(c)
        \/ isPullRequestReviewCommentEvent(c)
        \/ isPullRequestReviewEvent(c)
  THEN IF c.payloadTrigger THEN "tag"
       ELSE IF truthy(c.inputs.prompt) THEN "agent"
       ELSE "none"
  ELSE "none"

\* detectMode: comment events; "none" when the block falls through
commentEventMode(c) ==
  IF /\ isEntityContext(c)
     /\ \/ isIssueCommentEvent(c)
        \/ isPullRequestReviewCommentEvent(c)
        \/ isPullRequestReviewEvent(c)
  THEN IF truthy(c.inputs.prompt) THEN "agent"
       ELSE IF checkContainsTrigger(c) THEN "tag"
       ELSE "none"
  ELSE "none"

\* mutant: on issues events the trigger is looked for before the prompt
issuesEventMode_triggerFirst(c) ==
  IF isEntityContext(c) /\ isIssuesEvent(c)
  THEN IF c.payloadTrigger THEN "tag"
       ELSE IF truthy(c.inputs.prompt) THEN "agent"
       ELSE "none"
  ELSE "none"

\* detectMode: issue events; "none" when the block falls through
issuesEventMode(c) ==
  IF isEntityContext(c) /\ isIssuesEvent(c)
  THEN IF truthy(c.inputs.prompt) THEN "agent"
       ELSE IF checkContainsTrigger(c) THEN "tag"
       ELSE "none"
  ELSE "none"

supportedActions == {"opened", "synchronize", "ready_for_review", "reopened"}

\* mutant: a mention in the pull request body selects tag mode, as for issues
pullRequestEventMode_bodyTrigger(c) ==
  IF isEntityContext(c) /\ isPullRequestEvent(c)
  THEN IF truthy(c.eventAction) /\ c.eventAction \in supportedActions
       THEN IF truthy(c.inputs.prompt) THEN "agent"
            ELSE IF checkContainsTrigger(c) THEN "tag"
            ELSE "none"
       ELSE "none"
  ELSE "none"

\* detectMode: pull_request events; "none" when the block falls through
pullRequestEventMode(c) ==
  IF isEntityContext(c) /\ isPullRequestEvent(c)
  THEN IF truthy(c.eventAction) /\ c.eventAction \in supportedActions
       THEN IF truthy(c.inputs.prompt) THEN "agent" ELSE "none"
       ELSE "none"
  ELSE "none"

\* modes/detector: detectMode; the first block that returns decides
detectMode(c) ==
  LET ret(m) == [kind |-> "return", mode |-> m, error |-> NoError]
      validation == trackProgressValidation(c)
  IN IF validation # NoError
     THEN [kind |-> "throw", mode |-> "none", error |-> validation]
     ELSE IF trackProgressMode(c) # "none" THEN ret(trackProgressMode(c))
     ELSE IF commentEventMode(c) # "none" THEN ret(commentEventMode(c))
     ELSE IF issuesEventMode(c) # "none" THEN ret(issuesEventMode(c))
     ELSE IF pullRequestEventMode(c) # "none" THEN ret(pullRequestEventMode(c))
     ELSE ret("agent")

VALID_MODES == {"tag", "agent"}

\* modes/registry: getMode
getMode(c) ==
  LET d == detectMode(c)
  IN IF d.kind = "throw" THEN d
     ELSE IF d.mode \notin VALID_MODES
     THEN [kind |-> "throw", mode |-> "none",
           error |-> [type |-> "ModeNotFound", names |-> d.mode]]
     ELSE d

\* mutant: an automation event triggers by itself
agentShouldTrigger_automation(c) ==
  truthy(c.inputs.prompt) \/ isAutomationContext(c)

\* modes/agent: agentMode.shouldTrigger
agentShouldTrigger(c) == truthy(c.inputs.prompt)

\* modes/tag: tagMode.shouldTrigger
tagShouldTrigger(c) == isEntityContext(c) /\ checkContainsTrigger(c)

\* mutant: the trigger check of tag mode is used for every mode
shouldTrigger_tagOnly(m, c) == tagShouldTrigger(c)

\* mode.shouldTrigger(context) for the mode selected by name
shouldTrigger(m, c) ==
  IF m = "agent" THEN agentShouldTrigger(c) ELSE tagShouldTrigger(c)

NoPerm ==
  [result |-> "none", path |-> "none", warned |-> <<>>, level |-> "none",
   error |-> NoError]

\* mutant: the bypass list is honoured whatever token is in use
permissionBypass_anyToken(actor, allowedNonWriteUsers, githubTokenProvided) ==
  LET allowedUsers == trim(allowedNonWriteUsers)
      allowedUserList == filterNonEmpty(mapTrim(split(allowedUsers)))
  IN IF Len(allowedNonWriteUsers) > 0
     THEN IF allowedUsers = star THEN "bypass-star"
          ELSE IF Len(allowedUsers) > 0 /\ includes(allowedUserList, actor)
          THEN "bypass-list"
          ELSE "none"
     ELSE "none"

\* checkWritePermissions: the allowed_non_write_users bypass; "none" when the
\* block falls through
permissionBypass(actor, allowedNonWriteUsers, githubTokenProvided) ==
  LET allowedUsers == trim(allowedNonWriteUsers)
      allowedUserList == filterNonEmpty(mapTrim(split(allowedUsers)))
  IN IF Len(allowedNonWriteUsers) > 0 /\ githubTokenProvided
     THEN IF allowedUsers = star THEN "bypass-star"
          ELSE IF Len(allowedUsers) > 0 /\ includes(allowedUserList, actor)
          THEN "bypass-list"
          ELSE "none"
     ELSE "none"

\* mutant: read access is taken for write access
hasWriteAccess_read(permissionLevel) ==
  permissionLevel = "admin" \/ permissionLevel = "write" \/ permissionLevel = "read"

\* checkWritePermissions: permissionLevel === "admin" || permissionLevel === "write"
hasWriteAccess(permissionLevel) ==
  permissionLevel = "admin" \/ permissionLevel = "write"

\* mutant: no login is taken for a GitHub App
isGitHubApp_never(actor) == FALSE

\* checkWritePermissions: actor.endsWith("[bot]")
isGitHubApp(actor) == endsWith(actor, BotSuffix)

\* mutant: the "[bot]" suffix is looked at before the bypass list
checkWritePermissions_botFirst(c, allowedNonWriteUsers, githubTokenProvided, answer) ==
  LET actor == c.actor
      bypass == permissionBypass(actor, allowedNonWriteUsers, githubTokenProvided)
      out(r, p, w, l, e) ==
        [result |-> r, path |-> p, warned |-> w, level |-> l, error |-> e]
  IN IF isGitHubApp(actor)
     THEN out("true", "bot", <<>>, "none", NoError)
     ELSE IF bypass # "none"
     THEN out("true", bypass, actor, "none", NoError)
     ELSE IF answer = "error"
     THEN out("throw", "query", <<>>, "none",
              [type |-> "FailedToCheckPermissions", names |-> actor])
     ELSE IF hasWriteAccess(answer)
     THEN out("true", "query", <<>>, answer, NoError)
     ELSE out("false", "query", <<>>, answer, NoError)

\* github/validation/permissions.ts: checkWritePermissions; answer is what the
\* collaborator-permission endpoint replies if it is asked
checkWritePermissions(c, allowedNonWriteUsers, githubTokenProvided, answer) ==
  LET actor == c.actor
      bypass == permissionBypass(actor, allowedNonWriteUsers, githubTokenProvided)
      out(r, p, w, l, e) ==
        [result |-> r, path |-> p, warned |-> w, level |-> l, error |-> e]
  IN IF bypass # "none"
     THEN out("true", bypass, actor, "none", NoError)
     ELSE IF isGitHubApp(actor)
     THEN out("true", "bot", <<>>, "none", NoError)
     ELSE IF answer = "error"
     THEN out("throw", "query", <<>>, "none",
              [type |-> "FailedToCheckPermissions", names |-> actor])
     ELSE IF hasWriteAccess(answer)
     THEN out("true", "query", <<>>, answer, NoError)
     ELSE out("false", "query", <<>>, answer, NoError)

NoHuman ==
  [result |-> "none", type |-> "none", path |-> "none", error |-> NoError]

\* mutant: the login is compared as it is spelled
botName_caseSensitive(actor) == stripBotSuffix(actor)

\* checkHumanActor: githubContext.actor.toLowerCase().replace(/\[bot\]$/, "")
botName(actor) == stripBotSuffix(toLowerCase(actor))

\* github/validation/actor: checkHumanActor; actorType is what
\* users.getByUsername replies
checkHumanActor(c, actorType) ==
  LET allowedBots == c.inputs.allowedBots
      allowedBotsList == filterNonEmpty(mapBotName(split(allowedBots)))
      name == botName(c.actor)
      out(r, p, e) == [result |-> r, type |-> actorType, path |-> p, error |-> e]
  IN IF actorType = "User" THEN out("return", "user", NoError)
     ELSE IF trim(allowedBots) = star THEN out("return", "all-bots", NoError)
     ELSE IF includes(allowedBotsList, name)
     THEN out("return", "allowed-bot", NoError)
     ELSE out("throw", "rejected",
              [type |-> "NonHumanActor", names |-> name, actorType |-> actorType])

----------------------------------------------------------------------------
(* github/data/fetcher: the time-boundary filter                           *)

\* ISO 8601 timestamps as GitHub sends them, around one trigger instant; the
\* instant 12:00:00 is spelled with and without milliseconds
tBefore == "2024-01-15T11:59:59.999Z"
tAt == "2024-01-15T12:00:00Z"
tAtMs == "2024-01-15T12:00:00.000Z"
tAfter == "2024-01-15T12:00:00.001Z"

\* new Date(iso).getTime(), in milliseconds since 2024-01-15T00:00:00Z
getTime(iso) ==
  CASE iso = tBefore -> 43199999
    [] iso = tAt -> 43200000
    [] iso = tAtMs -> 43200000
    [] iso = tAfter -> 43200001

\* mutant: updatedAt is preferred to lastEditedAt
lastEditTime_updatedFirst(item) ==
  IF item.updatedAt # Absent THEN item.updatedAt ELSE item.lastEditedAt

\* comment.lastEditedAt || comment.updatedAt
lastEditTime(item) ==
  IF item.lastEditedAt # Absent THEN item.lastEditedAt ELSE item.updatedAt

\* mutant: an item created or edited at the trigger instant is kept
existedBefore_inclusive(created, item, triggerTimestamp) ==
  /\ ~(getTime(created) > triggerTimestamp)
  /\ lastEditTime(item) # Absent
       => ~(getTime(lastEditTime(item)) > triggerTimestamp)

\* the callback handed to Array.prototype.filter by both filters
existedBefore(created, item, triggerTimestamp) ==
  /\ ~(getTime(created) >= triggerTimestamp)
  /\ lastEditTime(item) # Absent
       => ~(getTime(lastEditTime(item)) >= triggerTimestamp)

\* !triggerTime
noTriggerTime(triggerTime) == triggerTime = Absent \/ triggerTime = ""

filterCommentsToTriggerTime(comments, triggerTime) ==
  IF noTriggerTime(triggerTime) THEN comments
  ELSE SelectSeq(comments,
         LAMBDA comment : existedBefore(comment.createdAt, comment,
                                        getTime(triggerTime)))

\* mutant: without a trigger time nothing is returned
filterReviewsToTriggerTime_dropsAll(reviews, triggerTime) ==
  IF noTriggerTime(triggerTime) THEN <<>>
  ELSE SelectSeq(reviews,
         LAMBDA review : existedBefore(review.submittedAt, review,
                                       getTime(triggerTime)))

filterReviewsToTriggerTime(reviews, triggerTime) ==
  IF noTriggerTime(triggerTime) THEN reviews
  ELSE SelectSeq(reviews,
         LAMBDA review : existedBefore(review.submittedAt, review,
                                       getTime(triggerTime)))

\* mutant: only a triggering comment carries a trigger time
extractTriggerTimestamp_commentOnly(c) ==
  LET orUndefined(t) == IF t = Absent \/ t = "" THEN Absent ELSE t
  IN IF isIssueCommentEvent(c) \/ isPullRequestReviewCommentEvent(c)
     THEN orUndefined(c.payload.comment.created_at)
     ELSE Absent

\* github/data/fetcher: extractTriggerTimestamp; a missing or empty field
\* gives undefined
extractTriggerTimestamp(c) ==
  LET orUndefined(t) == IF t = Absent \/ t = "" THEN Absent ELSE t
  IN IF isIssueCommentEvent(c) THEN orUndefined(c.payload.comment.created_at)
     ELSE IF isPullRequestReviewEvent(c)
     THEN orUndefined(c.payload.review.submitted_at)
     ELSE IF isPullRequestReviewCommentEvent(c)
     THEN orUndefined(c.payload.comment.created_at)
     ELSE Absent

\* the triggerTime the caller of fetchGitHubData passes for a context
triggerTimeForFetch(c) == extractTriggerTimestamp(c)

\* (c) => c.body && !c.isMinimized
visibleComment(c) == c.body # "" /\ ~c.isMinimized

\* mutant: only the comments of an early, unedited first review are collected
flatMapComments_firstReview(reviews) ==
  IF reviews = <<>> THEN <<>>
  ELSE IF Head(reviews).submittedAt = tBefore /\ Head(reviews).lastEditedAt = Absent
  THEN Head(reviews).comments.nodes
  ELSE <<>>

\* reviewData?.nodes?.flatMap((r) => r.comments?.nodes ?? [])
RECURSIVE flatMapComments(_)
flatMapComments(reviews) ==
  IF reviews = <<>> THEN <<>>
  ELSE Head(reviews).comments.nodes \o flatMapComments(Tail(reviews))

\* let reviewData: { nodes: GitHubReview[] } | null = null
NoReviewData == [kind |-> "null"]

\* github/data/fetcher: fetchGitHubData; fetched is what the GraphQL query
\* answers. The three filtered lists are what goes to downloadCommentImages.
fetchGitHubData(isPR, fetched, triggerTime) ==
  IF fetched.status # "ok"
  THEN [kind |-> "threw",
        error |-> IF isPR THEN "Failed to fetch PR data"
                  ELSE "Failed to fetch issue data"]
  ELSE
    LET comments == filterCommentsToTriggerTime(fetched.comments, triggerTime)
        reviewData == IF isPR THEN [nodes |-> fetched.reviews] ELSE NoReviewData
        nodes == IF isPR THEN reviewData.nodes ELSE <<>>
        filteredReviewBodies ==
          SelectSeq(filterReviewsToTriggerTime(nodes, triggerTime),
                    LAMBDA r : r.body # "")
        allReviewComments == flatMapComments(nodes)
        filteredReviewComments ==
          filterCommentsToTriggerTime(allReviewComments, triggerTime)
    IN [kind |-> "returned",
        comments |-> comments,
        reviewData |-> reviewData,
        issueComments |-> SelectSeq(comments, visibleComment),
        reviewBodies |-> filteredReviewBodies,
        reviewComments |-> SelectSeq(filteredReviewComments, visibleComment)]

----------------------------------------------------------------------------
(* github/utils/sanitizer                                                  *)
(* A text is a sequence of characters; an invisible character is written   *)
(* by its Unicode name.                                                    *)

startsWith(s, pre) ==
  Len(s) >= Len(pre) /\ SubSeq(s, 1, Len(pre)) = pre

\* index of the first occurrence of pat in s at or after from, 0 if none
indexOf(s, pat, from) ==
  LET hits == {i \in from..(Len(s) - Len(pat) + 1) :
                 SubSeq(s, i, i + Len(pat) - 1) = pat}
  IN IF hits = {} THEN 0 ELSE CHOOSE i \in hits : \A j \in hits : i <= j

\* content.replace(/<!--[\s\S]*?-->/g, ""): one pass from left to right, the
\* text left behind is not scanned again
RECURSIVE stripHtmlComments(_)
stripHtmlComments(content) ==
  IF content = <<>> THEN <<>>
  ELSE IF startsWith(content, <<"<", "!", "-", "-">>)
  THEN LET close == indexOf(content, <<"-", "-", ">">>, 5)
       IN IF close = 0 THEN content
          ELSE stripHtmlComments(SubSeq(content, close + 3, Len(content)))
  ELSE <<Head(content)>> \o stripHtmlComments(Tail(content))

\* the characters of the four classes stripInvisibleCharacters removes, as far
\* as texts of the model hold them
InvisibleCharacters == {"ZWSP", "ZWNJ", "ZWJ", "BOM", "NUL", "DEL", "SHY", "RLO"}

stripInvisibleCharacters(content) ==
  SelectSeq(content, LAMBDA c : c \notin InvisibleCharacters)

\* content.replace(/!\[[^\]]*\]\(/g, "![](")
RECURSIVE stripMarkdownImageAltText(_)
stripMarkdownImageAltText(content) ==
  IF content = <<>> THEN <<>>
  ELSE IF startsWith(content, <<"!", "[">>)
  THEN LET close == indexOf(content, <<"]">>, 3)
       IN IF close # 0 /\ close < Len(content) /\ content[close + 1] = "("
          THEN <<"!", "[", "]", "(">>
                 \o stripMarkdownImageAltText(SubSeq(content, close + 2, Len(content)))
          ELSE <<Head(content)>> \o stripMarkdownImageAltText(Tail(content))
  ELSE <<Head(content)>> \o stripMarkdownImageAltText(Tail(content))

hasCharacter(content, chars) == \E i \in 1..Len(content) : content[i] \in chars

\* a text on which the replacement is not modelled
NotModelled == CHOOSE t \in {<<>>} : FALSE

\* both patterns end in a quoted title: a text without a quote is unchanged
stripMarkdownLinkTitles(content) ==
  IF hasCharacter(content, {"\"", "'"}) THEN NotModelled ELSE content

\* every pattern holds "=": a text without "=" is unchanged
stripHiddenAttributes(content) ==
  IF hasCharacter(content, {"="}) THEN NotModelled ELSE content

\* every token pattern holds "_": a text without "_" is unchanged
redactGitHubTokens(content) ==
  IF hasCharacter(content, {"_"}) THEN NotModelled ELSE content

DecimalDigits == <<"0", "1", "2", "3", "4", "5", "6", "7", "8", "9">>

HexDigits ==
  DecimalDigits \o <<"a", "b", "c", "d", "e", "f">>

\* the characters with codes 32 to 126 (the grave accent by its name)
Ascii ==
  <<
    " ", "!", "\"", "#", "$", "%", "&", "'", "(", ")", "*", "+",
    ",", "-", ".", "/", "0", "1", "2", "3", "4", "5", "6", "7",
    "8", "9", ":", ";", "<", "=", ">", "?", "@", "A", "B", "C",
    "D", "E", "F", "G", "H", "I", "J", "K", "L", "M", "N", "O",
    "P", "Q", "R", "S", "T", "U", "V", "W", "X", "Y", "Z", "[",
    "\\", "]", "^", "_", "GRAVE", "a", "b", "c", "d", "e", "f", "g",
    "h", "i", "j", "k", "l", "m", "n", "o", "p", "q", "r", "s",
    "t", "u", "v", "w", "x", "y", "z", "{", "|", "}", "~"
  >>

\* String.fromCharCode(num) for 32 <= num <= 126
fromCharCode(num) == Ascii[num - 31]

digitValue(c, digits) ==
  LET d == CASE c = "A" -> "a" [] c = "B" -> "b" [] c = "C" -> "c"
             [] c = "D" -> "d" [] c = "E" -> "e" [] c = "F" -> "f"
             [] OTHER -> c
  IN (CHOOSE i \in 1..Len(digits) : digits[i] = d) - 1

isDigit(c, digits) ==
  \/ \E i \in 1..Len(digits) : digits[i] = c
  \/ Len(digits) = 16 /\ c \in {"A", "B", "C", "D", "E", "F"}

\* parseInt(digits, base); the code compares the number with 32 and 126 only,
\* so every number above 126 is counted as 127
RECURSIVE parseInt(_, _, _)
parseInt(s, digits, acc) ==
  IF s = <<>> THEN acc
  ELSE LET next == acc * Len(digits) + digitValue(Head(s), digits)
       IN parseInt(Tail(s), digits, IF next > 126 THEN 127 ELSE next)

\* number of leading characters of s that are digits
RECURSIVE digitRun(_, _)
digitRun(s, digits) ==
  IF s # <<>> /\ isDigit(Head(s), digits)
  THEN 1 + digitRun(Tail(s), digits) ELSE 0

\* the replacer of both passes of normalizeHtmlEntities
decodeEntity(num) ==
  IF num >= 32 /\ num <= 126 THEN <<fromCharCode(num)>> ELSE <<>>

\* content.replace(/&#(\d+);/g, ...) and content.replace(/&#x([0-9a-fA-F]+);/g, ...)
RECURSIVE replaceEntities(_, _, _)
replaceEntities(content, prefix, digits) ==
  IF content = <<>> THEN <<>>
  ELSE IF startsWith(content, prefix)
  THEN LET body == SubSeq(content, Len(prefix) + 1, Len(content))
           n == digitRun(body, digits)
       IN IF n > 0 /\ n < Len(body) /\ body[n + 1] = ";"
          THEN decodeEntity(parseInt(SubSeq(body, 1, n), digits, 0))
                 \o replaceEntities(SubSeq(body, n + 2, Len(body)), prefix, digits)
          ELSE <<Head(content)>> \o replaceEntities(Tail(content), prefix, digits)
  ELSE <<Head(content)>> \o replaceEntities(Tail(content), prefix, digits)

normalizeHtmlEntities(content) ==
  replaceEntities(replaceEntities(content, <<"&", "#">>, DecimalDigits),
                  <<"&", "#", "x">>, HexDigits)

sanitizeContent(content) ==
  LET c1 == stripHtmlComments(content)
      c2 == stripInvisibleCharacters(c1)
      c3 == stripMarkdownImageAltText(c2)
      c4 == stripMarkdownLinkTitles(c3)
      c5 == stripHiddenAttributes(c4)
      c6 == normalizeHtmlEntities(c5)
  IN redactGitHubTokens(c6)

----------------------------------------------------------------------------
(* base-action/src/install-plugins                                         *)
(* An input is the sequence of its lines; lines are the texts of the tests. *)

MarketplaceLines ==
  {"", "https://github.com/user/m1.git", "https://github.com/user/m2.git",
   "http://github.com/user/marketplace.git"}

PluginLines == {"", "plugin1", "plugin2", "plugin-name; rm -rf /"}

\* validateMarketplaceUrl returns: MARKETPLACE_URL_REGEX demands https:// and
\* a trailing .git
validMarketplaceUrl(url) ==
  url \in {"https://github.com/user/m1.git", "https://github.com/user/m2.git"}

\* mutant: every plugin name is let through
validPluginName_any(pluginName) == TRUE

\* validatePluginName returns: PLUGIN_NAME_REGEX admits letters, digits and
\* @ _ - / . only, and the name holds no path traversal
validPluginName(pluginName) == pluginName \in {"plugin1", "plugin2"}

\* empty lines are dropped by the filter callback, the first invalid line
\* throws
parseMarketplaces(lines) ==
  LET kept == SelectSeq(lines, LAMBDA l : l # "")
      bad == {i \in 1..Len(kept) : ~validMarketplaceUrl(kept[i])}
  IN IF bad = {} THEN [kind |-> "return", value |-> kept, error |-> NoError]
     ELSE [kind |-> "throw", value |-> <<>>,
           error |-> [type |-> "InvalidMarketplaceUrl",
                      names |-> kept[CHOOSE i \in bad : \A j \in bad : i <= j]]]

parsePlugins(lines) ==
  LET kept == SelectSeq(lines, LAMBDA l : l # "")
      bad == {i \in 1..Len(kept) : ~validPluginName(kept[i])}
  IN IF bad = {} THEN [kind |-> "return", value |-> kept, error |-> NoError]
     ELSE [kind |-> "throw", value |-> <<>>,
           error |-> [type |-> "InvalidPluginName",
                      names |-> kept[CHOOSE i \in bad : \A j \in bad : i <= j]]]

----------------------------------------------------------------------------
(* The run of the prepare entrypoint                                       *)

Envs ==
  [eventName : RawEventNames,
   action : EventActions,
   actor : Actors,
   actorType : {"User", "Bot"},
   number : EntityNumbers,
   issueHasPullRequest : BOOLEAN,
   payloadTrigger : BOOLEAN,
   PROMPT : PromptEnvs,
   TRACK_PROGRESS : TrackProgressEnvs,
   ALLOWED_BOTS : AllowedBotsEnvs,
   ALLOWED_NON_WRITE_USERS : AllowedNonWriteUsersEnvs,
   OVERRIDE_GITHUB_TOKEN : OverrideTokenEnvs]

NoOutputs ==
  [contains_trigger |-> Absent, github_token |-> Absent, prepare_error |-> Absent]

Init ==
  /\ pc = "start"
  /\ env \in Envs
  \* only an issue_comment payload carries the issue.pull_request marker
  /\ env.issueHasPullRequest => env.eventName = "issue_comment"
  /\ env.actorType \in ActorTypes(env.actor)
  /\ context = NoContext
  /\ mode = "none"
  /\ tokenSet = FALSE
  /\ permCheck = NoPerm
  /\ humanCheck = NoHuman
  /\ outputs = NoOutputs
  /\ failure = NoError
  /\ exitCode = -1
  /\ prepared = "none"
  /\ trace = <<>>
  /\ call = NoCall
  /\ result = NoResult

\* mutant: the failure is reported but the process exits normally
Catch_exitZero(error, step) ==
  /\ pc' = "failed"
  /\ failure' = error
  /\ outputs' = [outputs EXCEPT !.prepare_error = error.type]
  /\ exitCode' = 0
  /\ trace' = Append(trace, step)

\* the catch block of run(): setFailed, prepare_error output, process.exit(1)
Catch(error, step) ==
  /\ pc' = "failed"
  /\ failure' = error
  /\ outputs' = [outputs EXCEPT !.prepare_error = error.type]
  /\ exitCode' = 1
  /\ trace' = Append(trace, step)

\* const context = parseGitHubContext()
ParseContext ==
  /\ UNCHANGED callVars
  /\ pc = "start"
  /\ LET r == parseGitHubContext(env)
     IN IF r.kind = "throw"
        THEN /\ Catch(r.error, "parseGitHubContext")
             /\ UNCHANGED context
        ELSE /\ context' = r.value
             /\ pc' = "parsed"
             /\ trace' = Append(trace, "parseGitHubContext")
             /\ UNCHANGED <<failure, outputs, exitCode>>
  /\ UNCHANGED <<env, mode, tokenSet, permCheck, humanCheck, prepared>>

\* const mode = getMode(context)
GetMode ==
  /\ UNCHANGED callVars
  /\ pc = "parsed"
  /\ LET r == getMode(context)
     IN IF r.kind = "throw"
        THEN /\ Catch(r.error, "getMode")
             /\ UNCHANGED mode
        ELSE /\ mode' = r.mode
             /\ pc' = "detected"
             /\ trace' = Append(trace, "getMode")
             /\ UNCHANGED <<failure, outputs, exitCode>>
  /\ UNCHANGED <<env, context, tokenSet, permCheck, humanCheck, prepared>>

\* const githubToken = await setupGitHubToken(); it can fail
SetupGitHubToken ==
  /\ UNCHANGED callVars
  /\ pc = "detected"
  /\ \E ok \in BOOLEAN :
       IF ok
       THEN /\ tokenSet' = TRUE
            /\ pc' = "token"
            /\ trace' = Append(trace, "setupGitHubToken")
            /\ UNCHANGED <<failure, outputs, exitCode>>
       ELSE /\ Catch([type |-> "TokenSetupFailed", names |-> "none"],
                     "setupGitHubToken")
            /\ UNCHANGED tokenSet
  /\ UNCHANGED <<env, context, mode, permCheck, humanCheck, prepared>>

\* mutant: the permission check runs for automation contexts too
CheckPermissions_anyContext ==
  /\ UNCHANGED callVars
  /\ pc = "token"
  /\ \E answer \in PermissionAnswers :
       LET githubTokenProvided == truthy(env.OVERRIDE_GITHUB_TOKEN)
           r == checkWritePermissions(context, context.inputs.allowedNonWriteUsers,
                                      githubTokenProvided, answer)
       IN /\ permCheck' = r
          /\ IF r.result = "throw"
             THEN Catch(r.error, "checkWritePermissions")
             ELSE IF r.result = "false"
             THEN Catch([type |-> "NoWritePermissions", names |-> "none"],
                        "checkWritePermissions")
             ELSE /\ pc' = "gated"
                  /\ trace' = Append(trace, "checkWritePermissions")
                  /\ UNCHANGED <<failure, outputs, exitCode>>
  /\ UNCHANGED <<env, context, mode, tokenSet, humanCheck, prepared>>

\* if (isEntityContext(context)) { checkWritePermissions(...) }
CheckPermissions ==
  /\ UNCHANGED callVars
  /\ pc = "token"
  /\ isEntityContext(context)
  /\ \E answer \in PermissionAnswers :
       LET githubTokenProvided == truthy(env.OVERRIDE_GITHUB_TOKEN)
           r == checkWritePermissions(context, context.inputs.allowedNonWriteUsers,
                                      githubTokenProvided, answer)
       IN /\ permCheck' = r
          /\ IF r.result = "throw"
             THEN Catch(r.error, "checkWritePermissions")
             ELSE IF r.result = "false"
             THEN Catch([type |-> "NoWritePermissions", names |-> "none"],
                        "checkWritePermissions")
             ELSE /\ pc' = "gated"
                  /\ trace' = Append(trace, "checkWritePermissions")
                  /\ UNCHANGED <<failure, outputs, exitCode>>
  /\ UNCHANGED <<env, context, mode, tokenSet, humanCheck, prepared>>

\* mutant: the permission check is skipped for every context
SkipPermissions_always ==
  /\ UNCHANGED callVars
  /\ pc = "token"
  /\ pc' = "gated"
  /\ UNCHANGED <<env, context, mode, tokenSet, permCheck, humanCheck, outputs,
                 failure, exitCode, prepared, trace>>

\* automation contexts skip the permission check
SkipPermissions ==
  /\ UNCHANGED callVars
  /\ pc = "token"
  /\ ~isEntityContext(context)
  /\ pc' = "gated"
  /\ UNCHANGED <<env, context, mode, tokenSet, permCheck, humanCheck, outputs,
                 failure, exitCode, prepared, trace>>

\* const containsTrigger = mode.shouldTrigger(context); setOutput; early return
CheckTrigger ==
  /\ UNCHANGED callVars
  /\ pc = "gated"
  /\ LET containsTrigger == shouldTrigger(mode, context)
     IN /\ trace' = Append(trace, "shouldTrigger")
        /\ IF containsTrigger
           THEN /\ outputs' = [outputs EXCEPT !.contains_trigger = "true"]
                /\ pc' = "triggered"
                /\ UNCHANGED exitCode
           ELSE /\ outputs' = [outputs EXCEPT !.contains_trigger = "false",
                                              !.github_token = "token"]
                /\ pc' = "done"
                /\ exitCode' = 0
  /\ UNCHANGED <<env, context, mode, tokenSet, permCheck, humanCheck, failure,
                 prepared>>

\* prepare({context, octokit, mode, githubToken}) with mode = agentMode:
\* agentMode.prepare configures git, writes the prompt file and the MCP config
PrepareAgent ==
  /\ UNCHANGED callVars
  /\ pc = "triggered"
  /\ mode = "agent"
  /\ prepared' = "agent"
  /\ pc' = "prepared"
  /\ trace' = Append(trace, "prepare")
  /\ UNCHANGED <<env, context, mode, tokenSet, permCheck, humanCheck, outputs,
                 failure, exitCode>>

\* prepare(...) with mode = tagMode: tagMode.prepare starts with the
\* human-actor check and goes on only when it returns
PrepareTag ==
  /\ UNCHANGED callVars
  /\ pc = "triggered"
  /\ mode = "tag"
  /\ LET r == checkHumanActor(context, env.actorType)
     IN   /\ humanCheck' = r
          /\ IF r.result = "throw"
             THEN /\ Catch(r.error, "checkHumanActor")
                  /\ UNCHANGED prepared
             ELSE /\ prepared' = "tag"
                  /\ pc' = "prepared"
                  /\ trace' = trace \o <<"checkHumanActor", "prepare">>
                  /\ UNCHANGED <<failure, outputs, exitCode>>
  /\ UNCHANGED <<env, context, mode, tokenSet, permCheck>>

\* core.setOutput("github_token", githubToken) and the end of run()
Finish ==
  /\ UNCHANGED callVars
  /\ pc = "prepared"
  /\ outputs' = [outputs EXCEPT !.github_token = "token"]
  /\ pc' = "done"
  /\ exitCode' = 0
  /\ UNCHANGED <<env, context, mode, tokenSet, permCheck, humanCheck, failure,
                 prepared, trace>>

Next ==
  \/ ParseContext
  \/ GetMode
  \/ SetupGitHubToken
  \/ CheckPermissions
  \/ SkipPermissions
  \/ CheckTrigger
  \/ PrepareAgent
  \/ PrepareTag
  \/ Finish

Spec == Init /\ [][Next]_vars

----------------------------------------------------------------------------
(* Single calls of the functions of the source                             *)

NoEnv == [eventName |-> "none"]

\* no run of the entrypoint is going on
IdleRun ==
  /\ pc = "idle"
  /\ env = NoEnv
  /\ context = NoContext
  /\ mode = "none"
  /\ tokenSet = FALSE
  /\ permCheck = NoPerm
  /\ humanCheck = NoHuman
  /\ outputs = NoOutputs
  /\ failure = NoError
  /\ exitCode = -1
  /\ prepared = "none"
  /\ trace = <<>>

PermCalls ==
  [fn : {"checkWritePermissions"},
   actor : PermActors,
   allowedNonWriteUsers : PermLists,
   githubTokenProvided : BOOLEAN,
   answer : PermissionAnswers]

InitPerm ==
  /\ IdleRun
  /\ call \in PermCalls
  /\ result = NoResult

\* checkWritePermissions(octokit, context, allowedNonWriteUsers, githubTokenProvided)
CallCheckWritePermissions ==
  /\ call.fn = "checkWritePermissions"
  /\ result = NoResult
  /\ result' = checkWritePermissions([actor |-> call.actor],
                                     call.allowedNonWriteUsers,
                                     call.githubTokenProvided, call.answer)
  /\ UNCHANGED <<call, runVars>>

SpecPerm == InitPerm /\ [][CallCheckWritePermissions]_vars

ActorCalls ==
  [fn : {"checkHumanActor"},
   actor : HumanActors,
   actorType : AccountTypes,
   allowedBots : AllowedBotsInputs]

InitActor ==
  /\ IdleRun
  /\ call \in ActorCalls
  /\ result = NoResult

\* checkHumanActor(octokit, githubContext)
CallCheckHumanActor ==
  /\ call.fn = "checkHumanActor"
  /\ result = NoResult
  /\ result' = checkHumanActor([actor |-> call.actor,
                                inputs |-> [allowedBots |-> call.allowedBots]],
                               call.actorType)
  /\ UNCHANGED <<call, runVars>>

SpecActor == InitActor /\ [][CallCheckHumanActor]_vars

\* longest list handed to a filter
MaxItems == 2

SeqsUpTo(S, n) == UNION {[1..k -> S] : k \in 0..n}

CreationTimes == {tBefore, tAt, tAfter}
UpdateTimes == {Absent, tBefore, tAfter}
EditTimes == {Absent, tBefore, tAtMs}
TriggerTimes == {Absent, "", tAt, tAfter}

Comments ==
  [createdAt : CreationTimes, updatedAt : UpdateTimes, lastEditedAt : EditTimes]

Reviews ==
  [submittedAt : CreationTimes, updatedAt : UpdateTimes, lastEditedAt : EditTimes]

FilterCalls ==
  [fn : {"filterCommentsToTriggerTime"},
   items : SeqsUpTo(Comments, MaxItems),
   triggerTime : TriggerTimes]
  \cup
  [fn : {"filterReviewsToTriggerTime"},
   items : SeqsUpTo(Reviews, MaxItems),
   triggerTime : TriggerTimes]

InitFilter ==
  /\ IdleRun
  /\ call \in FilterCalls
  /\ result = NoResult

CallFilterComments ==
  /\ call.fn = "filterCommentsToTriggerTime"
  /\ result = NoResult
  /\ result' = [kind |-> "returned",
                value |-> filterCommentsToTriggerTime(call.items, call.triggerTime)]
  /\ UNCHANGED <<call, runVars>>

CallFilterReviews ==
  /\ call.fn = "filterReviewsToTriggerTime"
  /\ result = NoResult
  /\ result' = [kind |-> "returned",
                value |-> filterReviewsToTriggerTime(call.items, call.triggerTime)]
  /\ UNCHANGED <<call, runVars>>

NextFilter == CallFilterComments \/ CallFilterReviews

SpecFilter == InitFilter /\ [][NextFilter]_vars

\* longest list of comments, of reviews and of comments inside one review
\* that a query answers
MaxFetched == 1

FetchedComments ==
  [createdAt : {tBefore}, updatedAt : {tBefore}, lastEditedAt : {Absent, tAtMs},
   body : {"text"}, isMinimized : {FALSE}]
  \cup
  [createdAt : {tBefore, tAt}, updatedAt : {Absent}, lastEditedAt : {Absent},
   body : {"text"}, isMinimized : {FALSE}]
  \cup
  [createdAt : {tBefore}, updatedAt : {Absent}, lastEditedAt : {Absent},
   body : {"text"}, isMinimized : {TRUE}]

FetchedReviews ==
  [submittedAt : {tBefore}, updatedAt : {tBefore}, lastEditedAt : {tAtMs},
   body : {"text"},
   comments : [nodes : SeqsUpTo(FetchedComments, MaxFetched)]]
  \cup
  [submittedAt : {tBefore, tAt}, updatedAt : {Absent}, lastEditedAt : {Absent},
   body : {"text"},
   comments : [nodes : SeqsUpTo(FetchedComments, MaxFetched)]]

\* what the PR_QUERY / ISSUE_QUERY request answers
PullRequestAnswers ==
  [status : {"ok"},
   comments : SeqsUpTo(FetchedComments, MaxFetched),
   reviews : SeqsUpTo(FetchedReviews, MaxFetched)]
  \cup [status : {"notfound", "error"}, comments : {<<>>}, reviews : {<<>>}]

IssueAnswers ==
  [status : {"ok"},
   comments : SeqsUpTo(FetchedComments, MaxFetched),
   reviews : {<<>>}]
  \cup [status : {"notfound", "error"}, comments : {<<>>}, reviews : {<<>>}]

PayloadTimes == {Absent, tAt}

\* entity contexts with the part of the webhook payload the fetcher reads
FetchContexts ==
  [eventName : {"issue_comment"}, isPR : {"true", "false"},
   payload : [comment : [created_at : PayloadTimes]]]
  \cup
  [eventName : {"pull_request_review_comment"}, isPR : {"true"},
   payload : [comment : [created_at : PayloadTimes]]]
  \cup
  [eventName : {"pull_request_review"}, isPR : {"true"},
   payload : [review : [submitted_at : PayloadTimes]]]
  \cup
  [eventName : {"pull_request"}, isPR : {"true"},
   payload : [action : {"opened"}]]
  \cup
  [eventName : {"issues"}, isPR : {"false"},
   payload : [action : {"opened"}]]

FetchCalls ==
  {c \in [fn : {"fetchGitHubData"},
          context : FetchContexts,
          fetched : PullRequestAnswers \cup IssueAnswers] :
     c.fetched \in (IF c.context.isPR = "true" THEN PullRequestAnswers
                    ELSE IssueAnswers)}

InitFetch ==
  /\ IdleRun
  /\ call \in FetchCalls
  /\ result = NoResult

\* extractTriggerTimestamp(context)
ExtractTriggerTimestamp ==
  /\ call.fn = "fetchGitHubData"
  /\ result = NoResult
  /\ result' = [kind |-> "triggerTime",
                triggerTime |-> triggerTimeForFetch(call.context)]
  /\ UNCHANGED <<call, runVars>>

\* fetchGitHubData({ ..., isPR, triggerTime })
FetchGitHubData ==
  /\ call.fn = "fetchGitHubData"
  /\ result # NoResult
  /\ result.kind = "triggerTime"
  /\ result' = [triggerTime |-> result.triggerTime,
                data |-> fetchGitHubData(call.context.isPR = "true",
                                         call.fetched, result.triggerTime),
                kind |-> "fetched"]
  /\ UNCHANGED <<call, runVars>>

NextFetch == ExtractTriggerTimestamp \/ FetchGitHubData

SpecFetch == InitFetch /\ [][NextFetch]_vars

----------------------------------------------------------------------------
\* most fragments a text is put together from
MaxParts == 4

\* fragments of comments, character references and image markup
TextParts ==
  {<<"<", "!", "-">>, <<"-">>, <<"-", "-", ">">>, <<"ZWSP">>,
   <<"&", "#">>, <<"4", "9">>, <<";">>, <<"a">>, <<"!", "[">>, <<"]", "(">>}

RECURSIVE concat(_)
concat(parts) ==
  IF parts = <<>> THEN <<>> ELSE Head(parts) \o concat(Tail(parts))

Texts == {concat(parts) : parts \in SeqsUpTo(TextParts, MaxParts)}

InitSanitize ==
  /\ IdleRun
  /\ call \in [fn : {"sanitizeContent"}, content : Texts]
  /\ result = NoResult

\* sanitizeContent(content)
Sanitize ==
  /\ call.fn = "sanitizeContent"
  /\ result = NoResult
  /\ result' = [kind |-> "once", once |-> sanitizeContent(call.content)]
  /\ UNCHANGED <<call, runVars>>

\* sanitizeContent applied to its own output
SanitizeAgain ==
  /\ call.fn = "sanitizeContent"
  /\ result # NoResult
  /\ result.kind = "once"
  /\ result' = [kind |-> "twice", once |-> result.once,
                twice |-> sanitizeContent(result.once)]
  /\ UNCHANGED <<call, runVars>>

NextSanitize == Sanitize \/ SanitizeAgain

SpecSanitize == InitSanitize /\ [][NextSanitize]_vars

----------------------------------------------------------------------------
\* most lines of a marketplaces or plugins input
MaxLines == 2

\* how a spawned command ends: exit code 0, a non-zero exit code, termination
\* by a signal (code null), or the error event of a failed spawn
Endings == {"0", "1", "signal", "error"}

NoChild == [cmd |-> "none", arg |-> "none"]

InitInstall ==
  /\ IdleRun
  /\ call \in [fn : {"installPlugins"},
               marketplacesInput : SeqsUpTo(MarketplaceLines, MaxLines),
               pluginsInput : SeqsUpTo(PluginLines, MaxLines)]
  /\ result = NoResult

Installing(phase) ==
  /\ call.fn = "installPlugins"
  /\ result # NoResult
  /\ result.kind = "running"
  /\ result.phase = phase

\* const marketplaces = parseMarketplaces(marketplacesInput)
ParseMarketplaces ==
  /\ call.fn = "installPlugins"
  /\ result = NoResult
  /\ LET r == parseMarketplaces(call.marketplacesInput)
     IN result' = [kind |-> IF r.kind = "throw" THEN "rejected" ELSE "running",
                   phase |-> "marketplaces", todo |-> r.value,
                   child |-> NoChild, log |-> <<>>, error |-> r.error]
  /\ UNCHANGED <<call, runVars>>

\* executeClaudeCommand: spawn(claudeExecutable, args) for the next marketplace
\* or plugin of the loop
SpawnCommand ==
  /\ \E phase \in {"marketplaces", "plugins"} : Installing(phase)
  /\ result.child = NoChild
  /\ result.todo # <<>>
  /\ LET cmd == [cmd |-> IF result.phase = "marketplaces"
                         THEN "plugin marketplace add" ELSE "plugin install",
                 arg |-> Head(result.todo)]
     IN result' = [result EXCEPT !.child = cmd,
                                 !.todo = Tail(result.todo),
                                 !.log = Append(result.log,
                                           [event |-> "spawn", cmd |-> cmd.cmd,
                                            arg |-> cmd.arg])]
  /\ UNCHANGED <<call, runVars>>

\* mutant: a failed command does not stop the loop
ChildEnds_goesOn ==
  /\ \E phase \in {"marketplaces", "plugins"} : Installing(phase)
  /\ result.child # NoChild
  /\ \E ending \in Endings :
       result' = [result EXCEPT
                    !.child = NoChild,
                    !.log = Append(result.log,
                              [event |-> ending, cmd |-> result.child.cmd,
                               arg |-> result.child.arg])]
  /\ UNCHANGED <<call, runVars>>

\* executeClaudeCommand: the close or error event of the child settles the
\* awaited promise
ChildEnds ==
  /\ \E phase \in {"marketplaces", "plugins"} : Installing(phase)
  /\ result.child # NoChild
  /\ \E ending \in Endings :
       result' = [result EXCEPT
                    !.child = NoChild,
                    !.log = Append(result.log,
                              [event |-> ending, cmd |-> result.child.cmd,
                               arg |-> result.child.arg]),
                    !.kind = IF ending = "0" THEN "running" ELSE "rejected",
                    !.error = IF ending = "0" THEN NoError
                              ELSE [type |-> "CommandFailed",
                                    names |-> result.child.arg]]
  /\ UNCHANGED <<call, runVars>>

\* const plugins = parsePlugins(pluginsInput), after the marketplace loop
ParsePlugins ==
  /\ Installing("marketplaces")
  /\ result.child = NoChild
  /\ result.todo = <<>>
  /\ LET r == parsePlugins(call.pluginsInput)
     IN result' = [result EXCEPT
                     !.kind = IF r.kind = "throw" THEN "rejected" ELSE "running",
                     !.phase = "plugins", !.todo = r.value, !.error = r.error]
  /\ UNCHANGED <<call, runVars>>

\* the end of installPlugins: the promise resolves
InstallDone ==
  /\ Installing("plugins")
  /\ result.child = NoChild
  /\ result.todo = <<>>
  /\ result' = [result EXCEPT !.kind = "resolved"]
  /\ UNCHANGED <<call, runVars>>

NextInstall ==
  \/ ParseMarketplaces
  \/ SpawnCommand
  \/ ChildEnds
  \/ ParsePlugins
  \/ InstallDone

SpecInstall == InitInstall /\ [][NextInstall]_vars

----------------------------------------------------------------------------
\* one call of either gate function
InitGate == InitPerm \/ InitActor

NextGate == CallCheckWritePermissions \/ CallCheckHumanActor

SpecGate == InitGate /\ [][NextGate]_vars

----------------------------------------------------------------------------
(* Claims                                                                  *)

\* getMode(context) has been called and has returned or thrown
DetectActed == context # NoContext /\ pc # "parsed"

\* detectMode threw one of the two track-progress configuration errors
TrackProgressErrors == {"TrackProgressEvent", "TrackProgressAction"}

hasPrompt == context.inputs.prompt # ""

\* C1: over every supported context detectMode returns exactly "tag" or
\* "agent" or raises one of the two track-progress validation errors, and
\* with track-progress false it never raises.
C1_DetectModeTotal ==
  DetectActed =>
    /\ \/ mode \in {"tag", "agent"}
       \/ /\ mode = "none"
          /\ pc = "failed"
          /\ failure.type \in TrackProgressErrors
    /\ ~context.inputs.trackProgress => mode \in {"tag", "agent"}

C1_Witness ==
  /\ DetectActed
  /\ ~context.inputs.trackProgress
  /\ isAutomationContext(context)
  /\ context.eventAction = Absent
  /\ mode = "agent"

\* C2: with track-progress true, on an entity context that passed validation,
\* detectMode returns "tag" whatever the prompt and the trigger condition are.
C2_TrackProgressForcesTag ==
  (DetectActed /\ context.inputs.trackProgress /\ isEntityContext(context)
     /\ mode # "none")
    => mode = "tag"

C2_Witness ==
  /\ DetectActed
  /\ context.inputs.trackProgress
  /\ isPullRequestEvent(context)
  /\ hasPrompt
  /\ ~context.payloadTrigger
  /\ mode = "tag"

CommentAndIssueEvents ==
  {"issue_comment", "pull_request_review_comment", "pull_request_review", "issues"}

\* C3: with track-progress false, on issue_comment, pull_request_review_comment,
\* pull_request_review and issues events detectMode returns "agent" if the
\* prompt is non-empty, otherwise "tag" if the trigger condition holds,
\* otherwise "agent".
C3_PromptThenTrigger ==
  (DetectActed /\ ~context.inputs.trackProgress
     /\ context.eventName \in CommentAndIssueEvents)
    => mode = (IF hasPrompt THEN "agent"
               ELSE IF context.payloadTrigger THEN "tag"
               ELSE "agent")

C3_Witness ==
  /\ DetectActed
  /\ ~context.inputs.trackProgress
  /\ isIssueCommentEvent(context)
  /\ hasPrompt
  /\ context.payloadTrigger
  /\ mode = "agent"

\* C4: with track-progress false detectMode returns "agent" for every
\* pull_request event and every automation event.
C4_NoTagForPullRequestOrAutomation ==
  (DetectActed /\ ~context.inputs.trackProgress
     /\ (isPullRequestEvent(context) \/ isAutomationContext(context)))
    => mode = "agent"

C4_Witness ==
  /\ DetectActed
  /\ ~context.inputs.trackProgress
  /\ isPullRequestEvent(context)
  /\ context.eventAction = "opened"
  /\ ~hasPrompt
  /\ context.payloadTrigger
  /\ mode = "agent"

\* C5: with track-progress true and an event name outside the five entity
\* events, detectMode raises a configuration error naming the event and
\* returns no mode.
C5_TrackProgressRejectsOtherEvents ==
  (DetectActed /\ context.inputs.trackProgress
     /\ context.eventName \notin validEvents)
    => /\ mode = "none"
       /\ pc = "failed"
       /\ failure = [type |-> "TrackProgressEvent", names |-> context.eventName]

C5_Witness ==
  /\ DetectActed
  /\ context.inputs.trackProgress
  /\ context.eventName = "schedule"
  /\ failure.type = "TrackProgressEvent"

\* C6 as stated: with track-progress true on a pull_request event, detectMode
\* returns a mode only if the action is opened, synchronize, ready_for_review
\* or reopened, and raises an error naming the action in every other case.
C6_Original ==
  (DetectActed /\ context.inputs.trackProgress /\ isPullRequestEvent(context))
    => IF context.eventAction \in validActions
       THEN mode # "none"
       ELSE /\ mode = "none"
            /\ failure = [type |-> "TrackProgressAction",
                          names |-> context.eventAction]

\* C6 amended: with track-progress true on a pull_request event, detectMode
\* returns a mode only if the action is absent or one of opened, synchronize,
\* ready_for_review, reopened; for every other action it raises a
\* configuration error naming that action.
C6_TrackProgressPullRequestActions ==
  (DetectActed /\ context.inputs.trackProgress /\ isPullRequestEvent(context))
    => IF context.eventAction \in validActions \cup {Absent}
       THEN mode = "tag"
       ELSE /\ mode = "none"
            /\ pc = "failed"
            /\ failure = [type |-> "TrackProgressAction",
                          names |-> context.eventAction]

C6_Witness ==
  /\ DetectActed
  /\ context.inputs.trackProgress
  /\ isPullRequestEvent(context)
  /\ context.eventAction = "closed"
  /\ failure.type = "TrackProgressAction"

C8_AgentTriggersIffPrompt ==
  (mode = "agent" /\ outputs.contains_trigger # Absent)
    => (outputs.contains_trigger = "true" <=> truthy(env.PROMPT))

C8_Witness ==
  /\ mode = "agent"
  /\ isAutomationContext(context)
  /\ ~truthy(env.PROMPT)
  /\ outputs.contains_trigger = "false"

\* C9 as stated: when detectMode defaults to "agent" and there is no prompt,
\* contains_trigger is emitted as false, the mode's prepare step is never
\* invoked and the run does not end in failure.
C9_Original ==
  (mode = "agent" /\ ~hasPrompt) =>
    /\ prepared = "none"
    /\ outputs.contains_trigger # "true"
    /\ pc # "failed"

GateFailures ==
  {"TokenSetupFailed", "NoWritePermissions", "FailedToCheckPermissions"}

\* C9 amended: when detectMode defaults to "agent" and there is no prompt, the
\* mode's prepare step is never invoked and contains_trigger is never emitted
\* as true; the run ends in failure only if token setup fails or, for an
\* entity context, the write-permission check denies the actor or fails, and
\* otherwise it ends with contains_trigger emitted as false and exit code 0.
C9_DefaultAgentIsInert ==
  (mode = "agent" /\ ~hasPrompt) =>
    /\ prepared = "none"
    /\ outputs.contains_trigger # "true"
    /\ pc = "failed" =>
         /\ failure.type \in GateFailures
         /\ failure.type # "TokenSetupFailed" => isEntityContext(context)
    /\ pc = "done" => (outputs.contains_trigger = "false" /\ exitCode = 0)
    /\ pc \in {"start", "parsed", "detected", "token", "gated", "done", "failed"}

C9_Witness ==
  /\ mode = "agent"
  /\ ~hasPrompt
  /\ isPullRequestEvent(context)
  /\ context.payloadTrigger
  /\ pc = "done"
  /\ outputs.contains_trigger = "false"

\* the actor is a User, or allowed_bots lets the bot/app through
ActorIsHumanOrAllowedBot ==
  \/ env.actorType = "User"
  \/ trim(env.ALLOWED_BOTS) = star
  \/ includes(filterNonEmpty(mapBotName(split(env.ALLOWED_BOTS))),
              stripBotSuffix(toLowerCase(env.actor)))

\* C10: for an entity context the selected mode's prepare step is reached
\* only if the human-actor check and the write-permission check have both
\* passed; a bot/app actor that allowed_bots does not cover never reaches it.
C10_GateBeforePrepare ==
  (prepared # "none" /\ isEntityContext(context)) =>
    /\ permCheck.result = "true"
    /\ ActorIsHumanOrAllowedBot

----------------------------------------------------------------------------
PermReturned == call.fn = "checkWritePermissions" /\ result # NoResult

\* the actor is one of the comma-separated, trimmed entries of the list
NamedInList(actor, list) ==
  \E i \in 1..Len(split(list)) : trim(split(list)[i]) = actor /\ actor # <<>>

IsBotLogin(actor) == endsWith(actor, BotSuffix)

\* C11: the allowed_non_write_users bypass applies only with a directly
\* supplied token: without it checkWritePermissions returns false for every
\* non-bot actor with a permission level other than admin or write, whatever
\* the list holds; with it an actor named in the list passes with read access.
C11_BypassNeedsProvidedToken ==
  PermReturned =>
    /\ (/\ ~call.githubTokenProvided
        /\ ~IsBotLogin(call.actor)
        /\ call.answer \in {"read", "none"})
         => result.result = "false"
    /\ (/\ call.githubTokenProvided
        /\ NamedInList(call.actor, call.allowedNonWriteUsers)
        /\ call.answer = "read")
         => result.result = "true"

C11_Witness ==
  /\ PermReturned
  /\ ~call.githubTokenProvided
  /\ call.actor = alice
  /\ call.allowedNonWriteUsers \in {alice, star}
  /\ call.answer = "read"
  /\ result.result = "false"

\* the allowed_non_write_users bypass does not apply to the call
NoBypassApplies ==
  ~ /\ call.githubTokenProvided
    /\ \/ trim(call.allowedNonWriteUsers) = star
       \/ NamedInList(call.actor, call.allowedNonWriteUsers)

\* C12: with no bypass and a login not ending in "[bot]", checkWritePermissions
\* returns true iff the permission level is admin or write, returns false
\* without throwing for every other level, and throws an error naming the
\* actor exactly when the permission query fails.
C12_WriteAccessDecides ==
  (PermReturned /\ NoBypassApplies /\ ~IsBotLogin(call.actor)) =>
    /\ result.result = "true" <=> call.answer \in {"admin", "write"}
    /\ result.result = "false" <=> call.answer \in {"read", "none"}
    /\ result.result = "throw" <=> call.answer = "error"
    /\ result.result = "throw" =>
         result.error = [type |-> "FailedToCheckPermissions", names |-> call.actor]
    /\ result.result # "throw" => result.error = NoError

C12_Witness ==
  /\ PermReturned
  /\ NoBypassApplies
  /\ call.actor = bob
  /\ call.answer = "error"
  /\ result.result = "throw"

----------------------------------------------------------------------------
ActorReturned == call.fn = "checkHumanActor" /\ result # NoResult

\* a login or list entry lower-cased with a trailing "[bot]" removed
NormalizedLogin(s) == stripBotSuffix(toLowerCase(s))

\* some comma-separated allowed_bots entry normalizes to the actor's login
MatchesAllowedBot(actor, allowedBots) ==
  \E i \in 1..Len(split(allowedBots)) :
    NormalizedLogin(trim(split(allowedBots)[i])) = NormalizedLogin(actor)

----------------------------------------------------------------------------
FilterReturned ==
  /\ call.fn \in {"filterCommentsToTriggerTime", "filterReviewsToTriggerTime"}
  /\ result # NoResult

\* createdAt for comments, submittedAt for reviews
CreationTime(item) ==
  IF call.fn = "filterReviewsToTriggerTime" THEN item.submittedAt
  ELSE item.createdAt

\* the instant an ISO timestamp denotes, in milliseconds of the day
Instant(iso) ==
  CASE iso \in {tAt, tAtMs} -> 43200000
    [] iso = tBefore -> 43200000 - 1
    [] iso = tAfter -> 43200000 + 1

HasTrigger == call.triggerTime \notin {Absent, ""}

EffectiveEdit(item) ==
  IF item.lastEditedAt # Absent THEN item.lastEditedAt ELSE item.updatedAt

StrictlyBeforeTrigger(item) ==
  /\ Instant(CreationTime(item)) < Instant(call.triggerTime)
  /\ EffectiveEdit(item) # Absent
       => Instant(EffectiveEdit(item)) < Instant(call.triggerTime)

\* C14: given a trigger time T both filters return exactly the input items,
\* unmodified and in input order, created strictly before T and, when edited,
\* last edited strictly before T; an item created or last edited exactly at T
\* is excluded, and the result is a sub-sequence of the input.
C14_FilterKeepsStrictlyEarlier ==
  (FilterReturned /\ HasTrigger) =>
    /\ result.value = SelectSeq(call.items, StrictlyBeforeTrigger)
    /\ Len(result.value) <= Len(call.items)
    /\ \A i \in 1..Len(result.value) :
         /\ Instant(CreationTime(result.value[i])) # Instant(call.triggerTime)
         /\ EffectiveEdit(result.value[i]) # Absent =>
              Instant(EffectiveEdit(result.value[i])) # Instant(call.triggerTime)

\* an item created at T is dropped while one created a millisecond earlier stays
C14_Witness ==
  /\ FilterReturned
  /\ call.triggerTime = tAt
  /\ Len(call.items) = 2
  /\ CreationTime(call.items[1]) = tAt
  /\ CreationTime(call.items[2]) = tBefore
  /\ result.value = <<call.items[2]>>

\* C15: the effective last-edit time is lastEditedAt when present, otherwise
\* updatedAt: created before the trigger, an item with updatedAt at or after
\* it but lastEditedAt before it is kept, and one with updatedAt before it
\* but lastEditedAt at or after it is dropped.
C15_LastEditedAtWins ==
  (FilterReturned /\ HasTrigger) =>
    \A i \in 1..Len(call.items) :
      LET item == call.items[i]
          T == Instant(call.triggerTime)
          kept == \E j \in 1..Len(result.value) : result.value[j] = item
      IN (Instant(CreationTime(item)) < T
          /\ item.updatedAt # Absent /\ item.lastEditedAt # Absent) =>
            /\ (Instant(item.updatedAt) >= T /\ Instant(item.lastEditedAt) < T)
                 => kept
            /\ (Instant(item.updatedAt) < T /\ Instant(item.lastEditedAt) >= T)
                 => ~kept

C15_Witness ==
  /\ FilterReturned
  /\ call.triggerTime = tAt
  /\ Len(call.items) = 2
  /\ CreationTime(call.items[1]) = tBefore
  /\ call.items[1].updatedAt = tAfter
  /\ call.items[1].lastEditedAt = tBefore
  /\ CreationTime(call.items[2]) = tBefore
  /\ call.items[2].updatedAt = tBefore
  /\ call.items[2].lastEditedAt = tAtMs
  /\ result.value = <<call.items[1]>>

\* C16: with the trigger time absent (undefined or empty) both filters return
\* the input unchanged, whatever the timestamps of the items.
C16_NoTriggerKeepsAll ==
  (FilterReturned /\ ~HasTrigger) => result.value = call.items

C16_Witness ==
  /\ FilterReturned
  /\ call.fn = "filterReviewsToTriggerTime"
  /\ call.triggerTime = ""
  /\ Len(call.items) = 2
  /\ call.items[1].submittedAt = tAfter
  /\ call.items[2].lastEditedAt = tAtMs
  /\ result.value = call.items

----------------------------------------------------------------------------
FetchReturned ==
  /\ call.fn = "fetchGitHubData"
  /\ result # NoResult
  /\ result.kind = "fetched"
  /\ result.data.kind = "returned"

\* an item of the history existed in its final state before the instant T
SettledBefore(created, item, T) ==
  /\ Instant(created) < Instant(T)
  /\ EffectiveEdit(item) # Absent => Instant(EffectiveEdit(item)) < Instant(T)

AllSettledBefore(comments, T) ==
  \A i \in 1..Len(comments) : SettledBefore(comments[i].createdAt, comments[i], T)

\* C17: when a trigger time is given, the history fetchGitHubData returns
\* (comments and reviewData) contains no comment, review or comment inside a
\* review created/submitted or last edited at or after the trigger time.
C17_ReturnedHistoryIsFiltered ==
  (FetchReturned /\ result.triggerTime # Absent) =>
    /\ AllSettledBefore(result.data.comments, result.triggerTime)
    /\ result.data.reviewData # NoReviewData =>
         \A i \in 1..Len(result.data.reviewData.nodes) :
           LET review == result.data.reviewData.nodes[i]
           IN /\ SettledBefore(review.submittedAt, review, result.triggerTime)
              /\ AllSettledBefore(review.comments.nodes, result.triggerTime)

TriggerExtracted ==
  /\ call.fn = "fetchGitHubData"
  /\ result # NoResult
  /\ result.kind \in {"triggerTime", "fetched"}

\* the timestamp of the triggering comment or review in the payload
PayloadTime ==
  LET e == call.context.eventName
  IN IF e \in {"issue_comment", "pull_request_review_comment"}
     THEN call.context.payload.comment.created_at
     ELSE IF e = "pull_request_review"
     THEN call.context.payload.review.submitted_at
     ELSE Absent

\* C18: extractTriggerTimestamp returns the created_at of the triggering
\* comment for issue_comment and pull_request_review_comment, the
\* submitted_at of the triggering review for pull_request_review, and
\* undefined for issues and pull_request or when the field is missing; so for
\* issues and pull_request events filtering is skipped and every fetched item
\* is kept.
C18_TriggerTimeFromPayload ==
  /\ TriggerExtracted =>
       /\ result.triggerTime = PayloadTime
       /\ call.context.eventName \in {"issues", "pull_request"}
            => result.triggerTime = Absent
  /\ (FetchReturned /\ call.context.eventName \in {"issues", "pull_request"}) =>
       /\ result.data.comments = call.fetched.comments
       /\ call.context.isPR = "true" =>
            /\ result.data.reviewData.nodes = call.fetched.reviews
            /\ result.data.reviewBodies = call.fetched.reviews
            /\ \A i \in 1..Len(call.fetched.reviews) :
                 \A j \in 1..Len(call.fetched.reviews[i].comments.nodes) :
                   LET c == call.fetched.reviews[i].comments.nodes[j]
                   IN ~c.isMinimized =>
                        \E k \in 1..Len(result.data.reviewComments) :
                          result.data.reviewComments[k] = c

\* a pull_request event whose fetched comment and review date from the
\* trigger instant or later keeps them all
C18_Witness ==
  /\ FetchReturned
  /\ call.context.eventName = "pull_request"
  /\ result.triggerTime = Absent
  /\ Len(call.fetched.comments) = 1
  /\ call.fetched.comments[1].createdAt = tAt
  /\ Len(call.fetched.reviews) = 1
  /\ call.fetched.reviews[1].lastEditedAt = tAtMs
  /\ result.data.comments = call.fetched.comments
  /\ result.data.reviewBodies = call.fetched.reviews

----------------------------------------------------------------------------
ParseActed == pc \notin {"start", "idle"}

EntityNames ==
  {"issues", "issue_comment", "pull_request", "pull_request_review",
   "pull_request_review_comment"}

AutomationNames ==
  {"workflow_dispatch", "repository_dispatch", "schedule", "workflow_run"}

\* pull_request_target is accepted as another name of pull_request
SupportedNames == EntityNames \cup AutomationNames \cup {"pull_request_target"}

\* C19: for each supported event name parseGitHubContext produces a context
\* of exactly one variant: entity, with entityNumber and isPR, for the five
\* issue and pull-request events; automation, without them, for the four
\* automation events; so exactly one of isEntityContext / isAutomationContext
\* holds. For any other event name it throws and returns no context.
C19_ExactlyOneVariant ==
  ParseActed =>
    IF env.eventName \in SupportedNames
    THEN /\ context # NoContext
         /\ isEntityContext(context) # isAutomationContext(context)
         /\ isEntityContext(context) <=> context.eventName \in EntityNames
         /\ isAutomationContext(context) <=> context.eventName \in AutomationNames
         /\ isEntityContext(context) <=>
              (context.entityNumber # Absent /\ context.isPR # Absent)
         /\ isAutomationContext(context) <=>
              (context.entityNumber = Absent /\ context.isPR = Absent)
         /\ failure.type # "UnsupportedEventType"
    ELSE /\ context = NoContext
         /\ pc = "failed"
         /\ failure = [type |-> "UnsupportedEventType", names |-> env.eventName]

C19_Witness ==
  /\ pc = "failed"
  /\ env.eventName = "push"
  /\ context = NoContext
  /\ failure.type = "UnsupportedEventType"

\* the context the same payload, actor and inputs give under the name
\* pull_request
PullRequestTwin == parseGitHubContext([env EXCEPT !.eventName = "pull_request"]).value

----------------------------------------------------------------------------

\* C21: sanitizeContent is idempotent: sanitizing an already sanitized text
\* changes nothing.
C21_SanitizeIdempotent ==
  (call.fn = "sanitizeContent" /\ result # NoResult /\ result.kind = "twice")
    => result.twice = result.once

----------------------------------------------------------------------------

\* position of a step in the trace, 0 if run() has not started it
StepAt(step) ==
  IF \E i \in 1..Len(trace) : trace[i] = step
  THEN CHOOSE i \in 1..Len(trace) : trace[i] = step
  ELSE 0

Started(step) == StepAt(step) # 0

Before(a, b) == Started(a) /\ Started(b) /\ StepAt(a) < StepAt(b)

\* the permission gate has passed for the context, or the context needs none
GatePassed ==
  IF isEntityContext(context)
  THEN Before("checkWritePermissions", "prepare") /\ permCheck.result = "true"
  ELSE ~Started("checkWritePermissions")

TrackProgressRejects ==
  /\ context.inputs.trackProgress
  /\ \/ context.eventName \notin EntityNames
     \/ /\ context.eventName = "pull_request"
        /\ context.eventAction \notin
             {Absent, "opened", "synchronize", "ready_for_review", "reopened"}

ValidationFailures == {"UnsupportedEventType"} \cup TrackProgressErrors

\* C23: when normalization fails on an unsupported event name, or
\* track-progress validation fails on an unsupported event or pull_request
\* action, the run aborts with a reported failure and non-zero exit before
\* any token setup, permission query, trigger evaluation or preparation.
C23_ValidationAbortsBeforeSideEffects ==
  /\ (ParseActed /\ env.eventName \notin SupportedNames)
       => failure.type = "UnsupportedEventType"
  /\ (DetectActed /\ TrackProgressRejects) => failure.type \in TrackProgressErrors
  /\ failure.type \in ValidationFailures =>
       /\ pc = "failed"
       /\ exitCode = 1
       /\ outputs.prepare_error = failure.type
       /\ ~tokenSet
       /\ permCheck = NoPerm
       /\ humanCheck = NoHuman
       /\ outputs.contains_trigger = Absent
       /\ outputs.github_token = Absent
       /\ prepared = "none"
       /\ \A i \in 1..Len(trace) :
            trace[i] \in {"parseGitHubContext", "getMode"}

C23_Witness ==
  /\ pc = "failed"
  /\ failure.type = "TrackProgressAction"
  /\ context.eventAction = "closed"
  /\ exitCode = 1
  /\ ~tokenSet

----------------------------------------------------------------------------

\* the allowed_non_write_users bypass applies to the call
BypassApplies ==
  /\ call.githubTokenProvided
  /\ \/ trim(call.allowedNonWriteUsers) = star
     \/ NamedInList(call.actor, call.allowedNonWriteUsers)

BypassPaths == {"bypass-star", "bypass-list"}

\* C24: the allowed_non_write_users bypass is decided before the "[bot]"
\* check and every true returned through it comes with a security warning
\* naming the actor: a "[bot]" actor matching the bypass takes the bypass
\* path with the warning, and no bypass succeeds silently.
C24_BypassFirstAndLoud ==
  PermReturned =>
    /\ BypassApplies <=> result.path \in BypassPaths
    /\ result.path \in BypassPaths =>
         /\ result.result = "true"
         /\ result.warned = call.actor
    /\ result.path \notin BypassPaths => result.warned = <<>>
    /\ (BypassApplies /\ IsBotLogin(call.actor)) => result.path # "bot"

C24_Witness ==
  /\ PermReturned
  /\ call.actor = dependabotBot
  /\ call.allowedNonWriteUsers = dependabotBot
  /\ call.githubTokenProvided
  /\ result.path = "bypass-list"
  /\ result.warned = dependabotBot

\* C25: with no bypass and a login ending in "[bot]", checkWritePermissions
\* returns true without the collaborator-permission query, whatever level
\* the actor holds and whatever allowed_non_write_users contains.
C25_BotPassesWithoutQuery ==
  (PermReturned /\ ~BypassApplies /\ IsBotLogin(call.actor)) =>
    /\ result.result = "true"
    /\ result.path = "bot"
    /\ result.level = "none"
    /\ result.error = NoError

C25_Witness ==
  /\ PermReturned
  /\ call.actor = dependabotBot
  /\ call.allowedNonWriteUsers = alice
  /\ call.githubTokenProvided
  /\ call.answer = "error"
  /\ result.result = "true"
  /\ result.path = "bot"

----------------------------------------------------------------------------

\* C26: for every automation context run() performs neither the human-actor
\* check nor the write-permission query; whether the run goes on to the
\* mode's prepare depends only on the mode's shouldTrigger result.
C26_AutomationSkipsBothChecks ==
  (ParseActed /\ context # NoContext /\ context.eventName \in AutomationNames) =>
    /\ permCheck = NoPerm
    /\ humanCheck = NoHuman
    /\ ~Started("checkWritePermissions")
    /\ ~Started("checkHumanActor")
    /\ failure.type \notin {"FailedToCheckPermissions", "NoWritePermissions",
                            "NonHumanActor"}
    /\ Started("shouldTrigger") =>
         /\ outputs.contains_trigger =
              (IF shouldTrigger(mode, context) THEN "true" ELSE "false")
         /\ pc # "failed"
    /\ pc = "done" => (prepared # "none" <=> shouldTrigger(mode, context))
    /\ Started("prepare") <=> (pc \in {"prepared", "done"} /\ prepared # "none")

C26_Witness ==
  /\ pc = "done"
  /\ context.eventName = "workflow_dispatch"
  /\ prepared = "agent"
  /\ permCheck = NoPerm
  /\ humanCheck = NoHuman
  /\ trace = <<"parseGitHubContext", "getMode", "setupGitHubToken",
               "shouldTrigger", "prepare">>

----------------------------------------------------------------------------

InstallStarted == call.fn = "installPlugins" /\ result # NoResult

NonEmptyLines(lines) == SelectSeq(lines, LAMBDA l : l # "")

\* the commands of a complete installation, in the order of the inputs
ExpectedCommands ==
  [i \in 1..Len(NonEmptyLines(call.marketplacesInput)) |->
     [cmd |-> "plugin marketplace add",
      arg |-> NonEmptyLines(call.marketplacesInput)[i]]]
  \o
  [i \in 1..Len(NonEmptyLines(call.pluginsInput)) |->
     [cmd |-> "plugin install", arg |-> NonEmptyLines(call.pluginsInput)[i]]]

Spawns == SelectSeq(result.log, LAMBDA e : e.event = "spawn")

\* C27: installPlugins spawns its commands strictly one after another: every
\* marketplace add, in input order, completes before any plugin install
\* starts, plugins are installed in input order, and after the first command
\* that fails no further command is spawned and the call rejects.
C27_CommandsOneAfterAnother ==
  InstallStarted =>
    /\ Len(Spawns) <= Len(ExpectedCommands)
    /\ \A k \in 1..Len(Spawns) :
         /\ Spawns[k].cmd = ExpectedCommands[k].cmd
         /\ Spawns[k].arg = ExpectedCommands[k].arg
    /\ \A i \in 1..Len(result.log) :
         LET e == result.log[i]
         IN IF i % 2 = 1
            THEN e.event = "spawn"
            ELSE /\ e.event \in Endings
                 /\ e.cmd = result.log[i - 1].cmd
                 /\ e.arg = result.log[i - 1].arg
                 /\ e.event # "0" =>
                      /\ i = Len(result.log)
                      /\ result.kind = "rejected"
                      /\ result.error = [type |-> "CommandFailed", names |-> e.arg]
    /\ result.child # NoChild <=> Len(result.log) % 2 = 1
    /\ result.kind = "resolved" =>
         /\ Len(Spawns) = Len(ExpectedCommands)
         /\ Len(result.log) = 2 * Len(Spawns)

\* both marketplaces were added before the first plugin install started, and
\* its failure ended the call
C27_Witness ==
  /\ InstallStarted
  /\ result.kind = "rejected"
  /\ Len(NonEmptyLines(call.marketplacesInput)) = 2
  /\ Len(NonEmptyLines(call.pluginsInput)) = 2
  /\ Len(result.log) = 6
  /\ result.log[5].cmd = "plugin install"
  /\ result.log[6].event = "signal"

InvalidMarketplace ==
  \E i \in 1..Len(call.marketplacesInput) :
    call.marketplacesInput[i] \in {"http://github.com/user/marketplace.git"}

InvalidPlugin ==
  \E i \in 1..Len(call.pluginsInput) :
    call.pluginsInput[i] \in {"plugin-name; rm -rf /"}

InstallSettled == InstallStarted /\ result.kind \in {"resolved", "rejected"}

\* C28 as stated: if any marketplace URL or any plugin name fails validation,
\* installPlugins rejects without having spawned any command.
C28_Original ==
  (InstallStarted /\ (InvalidMarketplace \/ InvalidPlugin)) =>
    /\ result.log = <<>>
    /\ InstallSettled => result.kind = "rejected"

\* C28 amended: an invalid marketplace URL makes installPlugins reject
\* without having spawned any command; an invalid plugin name makes it reject
\* without having spawned any plugin install, but only after every
\* marketplace add of valid marketplace inputs has been spawned and has ended.
C28_ValidationBeforeItsOwnLoop ==
  InstallStarted =>
    /\ InvalidMarketplace =>
         /\ result.log = <<>>
         /\ result.kind = "rejected"
         /\ result.error.type = "InvalidMarketplaceUrl"
    /\ InvalidPlugin =>
         /\ \A i \in 1..Len(result.log) : result.log[i].cmd # "plugin install"
         /\ result.kind # "resolved"
         /\ result.error.type = "InvalidPluginName" =>
              /\ result.kind = "rejected"
              /\ Len(result.log) = 2 * Len(NonEmptyLines(call.marketplacesInput))
              /\ \A i \in 1..Len(result.log) :
                   result.log[i].event \in {"spawn", "0"}

C28_Witness ==
  /\ InstallStarted
  /\ InvalidPlugin
  /\ result.kind = "rejected"
  /\ result.error.type = "InvalidPluginName"
  /\ Len(result.log) = 4

----------------------------------------------------------------------------

\* the review keeps its place among the processed review bodies
ReviewKept(review) ==
  \E k \in 1..Len(result.data.reviewBodies) : result.data.reviewBodies[k] = review

ReviewCommentKept(comment) ==
  \E k \in 1..Len(result.data.reviewComments) :
    result.data.reviewComments[k] = comment

\* C29: comments inside reviews are filtered independently of their parent
\* review: a review comment created and last edited before the trigger time
\* is kept among the processed review comments even when its review was
\* submitted or last edited at or after the trigger time and is filtered out.
C29_ReviewCommentsFilteredOnTheirOwn ==
  (FetchReturned /\ result.triggerTime # Absent /\ call.context.isPR = "true") =>
    \A i \in 1..Len(call.fetched.reviews) :
      LET review == call.fetched.reviews[i]
      IN /\ ReviewKept(review)
              <=> SettledBefore(review.submittedAt, review, result.triggerTime)
         /\ \A j \in 1..Len(review.comments.nodes) :
              LET c == review.comments.nodes[j]
              IN ReviewCommentKept(c) <=>
                   (/\ SettledBefore(c.createdAt, c, result.triggerTime)
                    /\ c.body # ""
                    /\ ~c.isMinimized)

C29_Witness ==
  /\ FetchReturned
  /\ result.triggerTime = tAt
  /\ Len(call.fetched.reviews) = 1
  /\ call.fetched.reviews[1].submittedAt = tAt
  /\ Len(call.fetched.reviews[1].comments.nodes) = 1
  /\ call.fetched.reviews[1].comments.nodes[1].createdAt = tBefore
  /\ result.data.reviewBodies = <<>>
  /\ result.data.reviewComments = call.fetched.reviews[1].comments.nodes

----------------------------------------------------------------------------

\* the value lists "*" as one entry among others
StarAmongEntries(list) ==
  /\ trim(list) # star
  /\ \E i \in 1..Len(split(list)) : trim(split(list)[i]) = star

\* C30: the wildcard is honoured only when the whole trimmed value is "*":
\* in checkWritePermissions a value such as "alice,*" bypasses only for an
\* actor named by an entry, and in checkHumanActor a value such as
\* "dependabot,*" allows no bot other than those it names.
C30_WildcardOnlyAlone ==
  /\ (PermReturned /\ StarAmongEntries(call.allowedNonWriteUsers)) =>
       /\ result.path # "bypass-star"
       /\ result.path = "bypass-list" <=>
            (call.githubTokenProvided
               /\ NamedInList(call.actor, call.allowedNonWriteUsers))
       /\ (call.actor = bob /\ call.answer \in {"read", "none"})
            => result.result = "false"
  /\ (ActorReturned /\ StarAmongEntries(call.allowedBots)
        /\ call.actorType # "User") =>
       /\ result.path # "all-bots"
       /\ result.result = "return" <=>
            MatchesAllowedBot(call.actor, call.allowedBots)

\* a bot other than dependabot is rejected under "dependabot,*"
C30_Witness ==
  /\ ActorReturned
  /\ StarAmongEntries(call.allowedBots)
  /\ call.actor = bob
  /\ call.actorType = "Bot"
  /\ result.result = "throw"

----------------------------------------------------------------------------
====
